---- MODULE Spec2Model ----
(***************************************************************************)
(* State-machine model of RVPipeline (rastervision.core.rv_pipeline):      *)
(* the chip, predict and bundle commands, the batched predictor            *)
(* predict_scene, and the sharding of chip/predict over                    *)
(* (split_ind, num_splits).                                                *)
(*                                                                         *)
(* Every pipeline instance p (one process, one RVPipeline object) has its  *)
(* own position pc[p] and its own locals; instances share nothing but the  *)
(* configuration they were constructed with.                               *)
(***************************************************************************)
EXTENDS Integers, Sequences, FiniteSets, TLC

\* ---------------------------------------------------------------- bounds
MaxScenes == 2      \* train scenes, and validation scenes, of a dataset
MaxTest == 1        \* test scenes of a dataset
MaxBatch == 3       \* largest predict_batch_sz
MaxChip == 2        \* largest predict_chip_sz
MaxH == 1           \* largest raster height
MaxW == 5           \* largest raster width
MaxSplits == 2      \* largest num_splits, and number of pipeline instances
MaxTrainWin == 2    \* largest number of training windows of a scene
MaxRuns == 2        \* commands invoked one after the other on an instance
MaxFiles == 2       \* bundle files a backend or an analyzer declares
MaxTile == 3        \* largest side of a raster in the tiling runs
MaxArgs == 3        \* command-line arguments after --channel-order
MaxArgLen == 1      \* characters of one such argument

\* self.backend = None
NoBackend == 0

Procs == 0 .. (MaxSplits - 1)

\* ---------------------------------------------------------------- helpers
Min(a, b) == IF a <= b THEN a ELSE b

Range(s) == {s[i] : i \in 1 .. Len(s)}

SeqRange(a, b) == [i \in 1 .. (b - a + 1) |-> a + i - 1]

RECURSIVE Flatten(_)
Flatten(ss) == IF ss = <<>> THEN <<>> ELSE Head(ss) \o Flatten(Tail(ss))

\* ---------------------------------------------------------------- boxes
Box(ymin, xmin, ymax, xmax) ==
    [ymin |-> ymin, xmin |-> xmin, ymax |-> ymax, xmax |-> xmax]

get_height(box) == box.ymax - box.ymin

get_width(box) == box.xmax - box.xmin

\* Starts of the windows along one axis: range(0, length, stride).
Starts(length, stride) ==
    [i \in 1 .. ((length + stride - 1) \div stride) |-> (i - 1) * stride]

\* Box.get_windows: row-major tiling of the extent, edge windows clipped to
\* the extent.
get_windows(extent, chip_sz, stride) ==
    LET rows == Starts(get_height(extent), stride)
        cols == Starts(get_width(extent), stride)
        win(r, c) ==
            Box(extent.ymin + r, extent.xmin + c,
                Min(extent.ymin + r + chip_sz, extent.ymax),
                Min(extent.xmin + c + chip_sz, extent.xmax))
    IN  [k \in 1 .. (Len(rows) * Len(cols)) |->
            win(rows[((k - 1) \div Len(cols)) + 1],
                cols[((k - 1) % Len(cols)) + 1])]

\* Extents a raster source may report.
Extents == {Box(0, 0, h, w) : h \in 0 .. MaxH, w \in 0 .. MaxW}

\* ---------------------------------------------------------------- labels
\* Labels: a map from window to the prediction made for it.
empty_labels == [w \in {} |-> 0]

\* labels += other: the windows of other are added, overwriting.
LabelsAdd(labels, other) ==
    [w \in (DOMAIN labels) \cup (DOMAIN other) |->
        IF w \in DOMAIN other THEN other[w] ELSE labels[w]]

\* raster_source.get_chip(window) of a scene: the pixels of that place.
get_chip(scene, window) == [scene |-> scene, window |-> window]

\* backend.predict(chips, windows): one prediction per chip, keyed by window.
BackendPredict(chips, wins) ==
    [w \in Range(wins) |->
        LET i == CHOOSE j \in 1 .. Len(wins) : wins[j] = w
        IN  <<"pred", chips[i]>>]

\* ---------------------------------------------------------------- dataset
\* DatasetConfig.get_split_config: the scenes of shard split_ind out of
\* num_splits, a contiguous balanced partition of each subset.
SplitScenes(scenes, split_ind, num_splits) ==
    SubSeq(scenes,
           ((split_ind * Len(scenes)) \div num_splits) + 1,
           ((split_ind + 1) * Len(scenes)) \div num_splits)

get_split_config(ds, split_ind, num_splits) ==
    [train_scenes |-> SplitScenes(ds.train_scenes, split_ind, num_splits),
     validation_scenes |->
         SplitScenes(ds.validation_scenes, split_ind, num_splits),
     test_scenes |-> SplitScenes(ds.test_scenes, split_ind, num_splits)]

\* The datasets a pipeline may be configured with: scene ids are distinct.
Datasets ==
    {[train_scenes |-> SeqRange(1, nt),
      validation_scenes |-> SeqRange(nt + 1, nt + nv),
      test_scenes |-> SeqRange(nt + nv + 1, nt + nv + ns)] :
        nt \in 0 .. MaxScenes, nv \in 0 .. MaxScenes, ns \in 0 .. MaxTest}

EmptyDataset ==
    [train_scenes |-> <<>>, validation_scenes |-> <<>>, test_scenes |-> <<>>]

\* ---------------------------------------------------------------- state
VARIABLES
    config,         \* self.config: dataset, predict_batch_sz, predict_chip_sz,
                    \* and the extents its scenes' raster sources may have
    runs,           \* runs[p]: command invocations instance p may still start
    pc,             \* pc[p]: position of instance p
    cmd,            \* cmd[p]: the command invoked on p and its (split_ind,
                    \* num_splits)
    self_backend,   \* self.backend: NoBackend or a backend instance
    builds,         \* number of backends instance p has built
    loaded,         \* backend instances load_model was called on, in call order
    backend,        \* the backend the running command uses
    dataset,        \* the command's dataset (its shard)
    phase,          \* subset being processed: "train", "validation", "test"
    queue,          \* scenes of the subset still to process
    built,          \* scenes built by the command, in build order
    active,         \* scenes inside their activate() scope
    writer,         \* sample writer scope: "none", "open", "closed"
    scene,          \* the scene being processed (0: none)
    windows,        \* windows of the scene
    idx,            \* number of windows the loop has consumed
    batch_chips,    \* predict_scene: buffered chips
    batch_windows,  \* predict_scene: buffered windows
    labels,         \* predict_scene: the scene's accumulated Labels
    trace,          \* calls made for the current scene, in order
    saved,          \* scenes whose predictions label_store.save stored, in order
    written,        \* samples passed to write_sample, in order
    error,          \* the call that raised, when the command failed
    bundle,         \* bundle(): files to copy, staging directory, archives
    cli             \* the rv predict command line and what it has done

vars == <<config, runs, pc, cmd, self_backend, builds, loaded, backend,
          dataset, phase, queue, built, active, writer, scene, windows, idx,
          batch_chips, batch_windows, labels, trace, saved, written, error,
          bundle, cli>>

\* Locals of the scene being processed.
sceneVars == <<scene, windows, idx, batch_chips, batch_windows, labels, trace>>

\* The pipeline's backend fields.
backendVars == <<self_backend, builds, loaded>>

NoCmd ==
    [name |-> "none", split_ind |-> 0, num_splits |-> 1, builds |-> 0,
     cached |-> FALSE]

NoBundle ==
    [todo |-> <<>>, staged |-> {}, copied |-> 0, archives |-> <<>>,
     uploads |-> <<>>]

NoError == [site |-> "none", scene |-> 0]

Event(op, bk, wins) == [op |-> op, backend |-> bk, windows |-> wins]

\* ---------------------------------------------------------------- hooks
post_process_sample(sample) == sample

post_process_batch(wins, chips, batch_labels) == batch_labels

post_process_predictions(scene_labels, s) == scene_labels

\* Mutant: the stride is one more than the chip size.
get_predict_windows_gaps(cfg, extent) ==
    get_windows(extent, cfg.predict_chip_sz, cfg.predict_chip_sz + 1)

\* chip_sz = stride = self.config.predict_chip_sz
get_predict_windows(cfg, extent) ==
    get_windows(extent, cfg.predict_chip_sz, cfg.predict_chip_sz)

\* ---------------------------------------------------------------- predict_scene

\* Mutant: the buffer is flushed only once it is larger than the batch size.
NeedFlushAbove(chips, cfg) == Len(chips) > cfg.predict_batch_sz

\* if len(batch_chips) >= self.config.predict_batch_sz
NeedFlush(chips, cfg) == Len(chips) >= cfg.predict_batch_sz

\* Mutant: the flush after the loop is unconditional.
HasRemainingAlways(chips) == TRUE

\* Mutant: the remaining partial batch is never flushed.
HasRemainingNever(chips) == FALSE

\* if len(batch_chips) > 0
HasRemaining(chips) == Len(chips) > 0

\* Mutant: a flush inside the loop leaves the buffer as it is.
FlushedKept(buf) == buf

\* batch_chips, batch_windows = [], []
Flushed(buf) == <<>>

\* Mutant: the batch's Labels replace the accumulator (= instead of +=).
predict_batch_assign(scene_labels, chips, wins) ==
    post_process_batch(wins, chips, BackendPredict(chips, wins))

\* predict_batch: the Labels after backend.predict, post_process_batch and +=.
predict_batch(scene_labels, chips, wins) ==
    LabelsAdd(scene_labels,
              post_process_batch(wins, chips, BackendPredict(chips, wins)))

\* Mutant: the raw Labels of a batch are merged before they are
\* post-processed.
BatchCallsMergeFirst(bk, wins) ==
    <<Event("predict", bk, wins), Event("merge", bk, wins),
      Event("post_process_batch", bk, wins)>>

\* The calls predict_batch makes, in order.
BatchCalls(bk, wins) ==
    <<Event("predict", bk, wins), Event("post_process_batch", bk, wins),
      Event("merge", bk, wins)>>

\* The batches backend.predict was called with, in call order.
PredictCalls(tr) ==
    LET calls == SelectSeq(tr, LAMBDA e : e.op = "predict")
    IN  [i \in 1 .. Len(calls) |-> calls[i].windows]

\* The windows handed to backend.predict so far, in call order.
PredictedWindows(tr) == Flatten(PredictCalls(tr))

\* Mutant: leaving the block leaves the scene active.
ScopeStays(act, s) == act

\* Leaving the with scene.activate() block, normally or by an exception.
ScopeExit(act, s) == act \ {s}

\* Leaving the with backend.get_sample_writer() block.
WriterExit(w) == IF w = "open" THEN "closed" ELSE w

\* Mutant: the exception leaves the command without the with blocks'
\* cleanup (activate and deactivate called without try/finally).
RaiseLeak(p, site) ==
    /\ pc' = [pc EXCEPT ![p] = "failed"]
    /\ error' = [error EXCEPT ![p] = [site |-> site, scene |-> scene[p]]]
    /\ UNCHANGED <<active, writer>>

\* Mutant: the exception is caught and logged, the command goes on.
RaiseAndGoOn(p, site) ==
    /\ error' = [error EXCEPT ![p] = [site |-> site, scene |-> scene[p]]]
    /\ UNCHANGED <<pc, active, writer>>

\* An exception raised by the call `site` leaves the command through the
\* enclosing with blocks.
Raise(p, site) ==
    /\ pc' = [pc EXCEPT ![p] = "failed"]
    /\ error' = [error EXCEPT ![p] = [site |-> site, scene |-> scene[p]]]
    /\ active' = [active EXCEPT ![p] = ScopeExit(active[p], scene[p])]
    /\ writer' = [writer EXCEPT ![p] = WriterExit(writer[p])]

\* ---------------------------------------------------------------- predict
\* dataset = self.config.dataset.get_split_config(split_ind, num_splits)
PredictDataset(cfg, split_ind, num_splits) ==
    get_split_config(cfg.dataset, split_ind, num_splits)

\* Mutant: the backend is rebuilt and reloaded by every predict call.
NeedBackendAlways(sb) == TRUE

\* if self.backend is None
NeedBackend(sb) == sb = NoBackend

\* A command is invoked on instance p: the previous invocation's locals and
\* records are gone. nbuilt: the backends this invocation builds.
StartCommand(p, name, split_ind, num_splits, nbuilt) ==
    /\ pc[p] \in {"idle", "done", "failed"}
    /\ runs[p] > 0
    /\ runs' = [runs EXCEPT ![p] = @ - 1]
    /\ cmd' = [cmd EXCEPT ![p] = [name |-> name, split_ind |-> split_ind,
                                  num_splits |-> num_splits,
                                  builds |-> nbuilt,
                                  cached |-> self_backend[p] # NoBackend]]
    /\ built' = [built EXCEPT ![p] = <<>>]
    /\ saved' = [saved EXCEPT ![p] = <<>>]
    /\ written' = [written EXCEPT ![p] = <<>>]
    /\ scene' = [scene EXCEPT ![p] = 0]
    /\ windows' = [windows EXCEPT ![p] = <<>>]
    /\ idx' = [idx EXCEPT ![p] = 0]
    /\ batch_chips' = [batch_chips EXCEPT ![p] = <<>>]
    /\ batch_windows' = [batch_windows EXCEPT ![p] = <<>>]
    /\ labels' = [labels EXCEPT ![p] = empty_labels]
    /\ trace' = [trace EXCEPT ![p] = <<>>]

\* predict(): cache the backend, load the model, take the shard.
PredictBegin(p, split_ind, num_splits) ==
    /\ StartCommand(p, "predict", split_ind, num_splits,
                    IF NeedBackend(self_backend[p]) THEN 1 ELSE 0)
    /\ IF NeedBackend(self_backend[p])
       THEN /\ self_backend' = [self_backend EXCEPT ![p] = builds[p] + 1]
            /\ builds' = [builds EXCEPT ![p] = @ + 1]
            /\ loaded' = [loaded EXCEPT ![p] = Append(@, builds[p] + 1)]
       ELSE UNCHANGED backendVars
    /\ backend' = [backend EXCEPT ![p] = self_backend'[p]]
    /\ dataset' = [dataset EXCEPT ![p] =
                       PredictDataset(config, split_ind, num_splits)]
    /\ pc' = [pc EXCEPT ![p] = "p_build"]
    /\ phase' = [phase EXCEPT ![p] = "validation"]
    /\ queue' = [queue EXCEPT ![p] = <<>>]
    /\ writer' = [writer EXCEPT ![p] = "none"]
    /\ error' = [error EXCEPT ![p] = NoError]
    /\ UNCHANGED <<config, cli, bundle, active>>

\* backend.build or load_model raises: predict() ends before any scene.
\* self.backend is assigned before load_model is called.
PredictBeginFail(p, split_ind, num_splits) ==
    /\ NeedBackend(self_backend[p])
    /\ \/ /\ StartCommand(p, "predict", split_ind, num_splits, 0)
          /\ error' = [error EXCEPT ![p] = [site |-> "build", scene |-> 0]]
          /\ UNCHANGED <<backendVars, backend>>
       \/ /\ StartCommand(p, "predict", split_ind, num_splits, 1)
          /\ self_backend' = [self_backend EXCEPT ![p] = builds[p] + 1]
          /\ builds' = [builds EXCEPT ![p] = @ + 1]
          /\ loaded' = [loaded EXCEPT ![p] = Append(@, builds[p] + 1)]
          /\ backend' = [backend EXCEPT ![p] = builds[p] + 1]
          /\ error' = [error EXCEPT ![p] = [site |-> "load_model", scene |-> 0]]
    /\ pc' = [pc EXCEPT ![p] = "failed"]
    /\ writer' = [writer EXCEPT ![p] = "none"]
    /\ UNCHANGED <<config, cli, bundle, dataset, phase, queue, active>>

\* Mutant: the test scenes are built together with the validation scenes.
PredictBuildAllAtOnce(p) ==
    /\ pc[p] = "p_build"
    /\ IF phase[p] = "validation"
       THEN /\ queue' = [queue EXCEPT ![p] = dataset[p].validation_scenes]
            /\ built' = [built EXCEPT ![p] =
                   @ \o dataset[p].validation_scenes \o dataset[p].test_scenes]
       ELSE /\ queue' = [queue EXCEPT ![p] = dataset[p].test_scenes]
            /\ UNCHANGED built
    /\ pc' = [pc EXCEPT ![p] = "p_scenes"]
    /\ UNCHANGED <<config, cli, bundle, runs, cmd, backendVars, backend,
                   dataset, phase, active, writer, sceneVars, saved, written,
                   error>>

\* The list of built scenes of the subset, handed to _predict.
PredictBuild(p) ==
    /\ pc[p] = "p_build"
    /\ LET scenes == IF phase[p] = "validation"
                     THEN dataset[p].validation_scenes
                     ELSE dataset[p].test_scenes
       IN  /\ queue' = [queue EXCEPT ![p] = scenes]
           /\ built' = [built EXCEPT ![p] = @ \o scenes]
    /\ pc' = [pc EXCEPT ![p] = "p_scenes"]
    /\ UNCHANGED <<config, cli, bundle, runs, cmd, backendVars, backend,
                   dataset, phase,
                   active, writer, sceneVars, saved, written, error>>

\* for scene in scenes: with scene.activate():
PredictActivate(p) ==
    /\ pc[p] = "p_scenes"
    /\ queue[p] # <<>>
    /\ scene' = [scene EXCEPT ![p] = Head(queue[p])]
    /\ active' = [active EXCEPT ![p] = @ \cup {Head(queue[p])}]
    /\ pc' = [pc EXCEPT ![p] = "p_scene"]
    /\ UNCHANGED <<config, cli, bundle, runs, cmd, backendVars, backend,
                   dataset, phase,
                   queue, built, writer, windows, idx, batch_chips,
                   batch_windows, labels, trace, saved, written, error>>

\* _predict(validation) returned: if dataset.test_scenes: _predict(test)
PredictTest(p) ==
    /\ pc[p] = "p_scenes"
    /\ queue[p] = <<>>
    /\ phase[p] = "validation"
    /\ dataset[p].test_scenes # <<>>
    /\ phase' = [phase EXCEPT ![p] = "test"]
    /\ pc' = [pc EXCEPT ![p] = "p_build"]
    /\ UNCHANGED <<config, cli, bundle, runs, cmd, backendVars, backend,
                   dataset, queue,
                   built, active, writer, sceneVars, saved, written, error>>

\* Mutant: predict() returns after the validation scenes.
PredictEndSkipsTest(p) ==
    /\ pc[p] = "p_scenes"
    /\ queue[p] = <<>>
    /\ pc' = [pc EXCEPT ![p] = "done"]
    /\ UNCHANGED <<config, cli, bundle, runs, cmd, backendVars, backend,
                   dataset,
                   phase, queue, built, active, writer, sceneVars, saved,
                   written, error>>

\* predict() returns.
PredictEnd(p) ==
    /\ pc[p] = "p_scenes"
    /\ queue[p] = <<>>
    /\ phase[p] = "test" \/ dataset[p].test_scenes = <<>>
    /\ pc' = [pc EXCEPT ![p] = "done"]
    /\ UNCHANGED <<config, cli, bundle, runs, cmd, backendVars, backend,
                   dataset, phase,
                   queue, built, active, writer, sceneVars, saved, written,
                   error>>

\* predict_scene up to the loop: empty labels, the windows of the extent.
PredictSceneBegin(p) ==
    /\ pc[p] = "p_scene"
    /\ \E extent \in config.extents :
           windows' = [windows EXCEPT ![p] =
                           get_predict_windows(config, extent)]
    /\ labels' = [labels EXCEPT ![p] = empty_labels]
    /\ idx' = [idx EXCEPT ![p] = 0]
    /\ batch_chips' = [batch_chips EXCEPT ![p] = <<>>]
    /\ batch_windows' = [batch_windows EXCEPT ![p] = <<>>]
    /\ trace' = [trace EXCEPT ![p] = <<>>]
    /\ pc' = [pc EXCEPT ![p] = "p_loop"]
    /\ UNCHANGED <<config, cli, bundle, runs, cmd, backendVars, backend,
                   dataset, phase,
                   queue, built, active, writer, scene, saved, written, error>>

\* One iteration of the loop over windows: get_chip, append, flush when full.
PredictWindow(p) ==
    /\ pc[p] = "p_loop"
    /\ idx[p] < Len(windows[p])
    /\ LET window == windows[p][idx[p] + 1]
           chips == Append(batch_chips[p], get_chip(scene[p], window))
           wins == Append(batch_windows[p], window)
           got == Event("get_chip", backend[p], <<window>>)
       IN  IF NeedFlush(chips, config)
           THEN /\ labels' = [labels EXCEPT ![p] =
                                  predict_batch(labels[p], chips, wins)]
                /\ trace' = [trace EXCEPT ![p] =
                                 Append(@, got) \o BatchCalls(backend[p], wins)]
                /\ batch_chips' = [batch_chips EXCEPT ![p] = Flushed(chips)]
                /\ batch_windows' = [batch_windows EXCEPT ![p] = Flushed(wins)]
           ELSE /\ batch_chips' = [batch_chips EXCEPT ![p] = chips]
                /\ batch_windows' = [batch_windows EXCEPT ![p] = wins]
                /\ trace' = [trace EXCEPT ![p] = Append(@, got)]
                /\ UNCHANGED labels
    /\ idx' = [idx EXCEPT ![p] = @ + 1]
    /\ UNCHANGED <<config, cli, bundle, runs, pc, cmd, backendVars, backend,
                   dataset, phase,
                   queue, built, active, writer, scene, windows, saved,
                   written, error>>

\* The loop is over: flush what remains, post-process, return the Labels.
PredictRemaining(p) ==
    /\ pc[p] = "p_loop"
    /\ idx[p] = Len(windows[p])
    /\ LET post == Event("post_process_predictions", backend[p], <<>>)
       IN  IF HasRemaining(batch_chips[p])
           THEN /\ labels' = [labels EXCEPT ![p] =
                       post_process_predictions(
                           predict_batch(labels[p], batch_chips[p],
                                         batch_windows[p]),
                           scene[p])]
                /\ trace' = [trace EXCEPT ![p] =
                       Append(@ \o BatchCalls(backend[p], batch_windows[p]),
                              post)]
           ELSE /\ labels' = [labels EXCEPT ![p] =
                       post_process_predictions(labels[p], scene[p])]
                /\ trace' = [trace EXCEPT ![p] = Append(@, post)]
    /\ pc' = [pc EXCEPT ![p] = "p_save"]
    /\ UNCHANGED <<config, cli, bundle, runs, cmd, backendVars, backend,
                   dataset, phase,
                   queue, built, active, writer, scene, windows, idx,
                   batch_chips, batch_windows, saved, written, error>>

\* label_store.save(labels)
PredictSave(p) ==
    /\ pc[p] = "p_save"
    /\ saved' = [saved EXCEPT ![p] =
                     Append(@, [scene |-> scene[p],
                                active |-> scene[p] \in active[p],
                                complete |->
                                    PredictedWindows(trace[p]) = windows[p]])]
    /\ trace' = [trace EXCEPT ![p] = Append(@, Event("save", backend[p], <<>>))]
    /\ pc' = [pc EXCEPT ![p] = "p_exit"]
    /\ UNCHANGED <<config, cli, bundle, runs, cmd, backendVars, backend,
                   dataset, phase,
                   queue, built, active, writer, scene, windows, idx,
                   batch_chips, batch_windows, labels, written, error>>

\* The with scene.activate() block ends; on to the next scene.
PredictDeactivate(p) ==
    /\ pc[p] = "p_exit"
    /\ active' = [active EXCEPT ![p] = ScopeExit(@, scene[p])]
    /\ queue' = [queue EXCEPT ![p] = Tail(@)]
    /\ scene' = [scene EXCEPT ![p] = 0]
    /\ windows' = [windows EXCEPT ![p] = <<>>]
    /\ idx' = [idx EXCEPT ![p] = 0]
    /\ batch_chips' = [batch_chips EXCEPT ![p] = <<>>]
    /\ batch_windows' = [batch_windows EXCEPT ![p] = <<>>]
    /\ labels' = [labels EXCEPT ![p] = empty_labels]
    /\ trace' = [trace EXCEPT ![p] = <<>>]
    /\ pc' = [pc EXCEPT ![p] = "p_scenes"]
    /\ UNCHANGED <<config, cli, bundle, runs, cmd, backendVars, backend,
                   dataset, phase,
                   built, writer, saved, written, error>>

\* An exception inside predict_scene or label_store.save, or while a scene
\* is built or activated: the calls made up to the one that raised are in
\* the trace, nothing after it happens.
PredictFail(p) ==
    /\ \/ /\ pc[p] = "p_build"
          /\ LET scenes == IF phase[p] = "validation"
                           THEN dataset[p].validation_scenes
                           ELSE dataset[p].test_scenes
             IN  \E k \in 1 .. Len(scenes) :
                     built' = [built EXCEPT ![p] =
                                   @ \o SubSeq(scenes, 1, k - 1)]
          /\ UNCHANGED trace
          /\ Raise(p, "scene.build")
       \/ /\ pc[p] = "p_scenes"
          /\ queue[p] # <<>>
          /\ UNCHANGED <<trace, built>>
          /\ Raise(p, "activate")
       \/ /\ pc[p] = "p_loop"
          /\ idx[p] < Len(windows[p])
          /\ UNCHANGED built
          /\ LET window == windows[p][idx[p] + 1]
                 chips == Append(batch_chips[p], get_chip(scene[p], window))
                 wins == Append(batch_windows[p], window)
                 got == Event("get_chip", backend[p], <<window>>)
             IN  \/ /\ trace' = [trace EXCEPT ![p] = Append(@, got)]
                    /\ Raise(p, "get_chip")
                 \/ /\ NeedFlush(chips, config)
                    /\ \E n \in 1 .. 2 :
                         /\ trace' = [trace EXCEPT ![p] = Append(@, got)
                                \o SubSeq(BatchCalls(backend[p], wins), 1, n)]
                         /\ Raise(p, BatchCalls(backend[p], wins)[n].op)
       \/ /\ pc[p] = "p_loop"
          /\ idx[p] = Len(windows[p])
          /\ UNCHANGED built
          /\ \/ /\ HasRemaining(batch_chips[p])
                /\ \E n \in 1 .. 2 :
                     /\ trace' = [trace EXCEPT ![p] = @ \o
                            SubSeq(BatchCalls(backend[p], batch_windows[p]),
                                   1, n)]
                     /\ Raise(p, BatchCalls(backend[p], batch_windows[p])[n].op)
             \/ /\ trace' = [trace EXCEPT ![p] =
                        (IF HasRemaining(batch_chips[p])
                         THEN @ \o BatchCalls(backend[p], batch_windows[p])
                         ELSE @)
                        \o <<Event("post_process_predictions", backend[p],
                                   <<>>)>>]
                /\ Raise(p, "post_process_predictions")
       \/ /\ pc[p] = "p_save"
          /\ UNCHANGED built
          /\ trace' = [trace EXCEPT ![p] =
                           Append(@, Event("save", backend[p], <<>>))]
          /\ Raise(p, "save")
    /\ UNCHANGED <<config, cli, bundle, runs, cmd, backendVars, backend,
                   dataset, phase, queue, scene, windows, idx, batch_chips,
                   batch_windows, labels, saved, written>>

\* ---------------------------------------------------------------- chip
\* get_train_windows of a pipeline: the first windows of a one-row tiling,
\* as many as the scene's strategy selects (none for some scenes).
get_train_windows(s) ==
    SubSeq(get_windows(Box(0, 0, 1, MaxTrainWin), 1, 1),
           1, s % (MaxTrainWin + 1))

\* get_train_labels of a pipeline: the scene's labels inside the window.
get_train_labels(window, s) == <<"labels", s, window>>

DataSample(chip, window, lbls, scene_id, is_train) ==
    [chip |-> chip, window |-> window, labels |-> lbls,
     scene_id |-> scene_id, is_train |-> is_train]

\* Mutant: chip ignores its shard arguments.
ChipDatasetUnsplit(cfg, split_ind, num_splits) == cfg.dataset

\* dataset = cfg.dataset.get_split_config(split_ind, num_splits)
ChipDataset(cfg, split_ind, num_splits) ==
    get_split_config(cfg.dataset, split_ind, num_splits)

\* Mutant: chip has no early return.
ChipNothingNever(ds) == FALSE

\* if not dataset.train_scenes and not dataset.validation_scenes: return
ChipNothing(ds) == ds.train_scenes = <<>> /\ ds.validation_scenes = <<>>

\* chip(): build a backend, take the shard, return if it is empty, else
\* open the sample writer.
ChipBegin(p, split_ind, num_splits) ==
    /\ StartCommand(p, "chip", split_ind, num_splits, 1)
    /\ builds' = [builds EXCEPT ![p] = @ + 1]
    /\ backend' = [backend EXCEPT ![p] = builds[p] + 1]
    /\ error' = [error EXCEPT ![p] = NoError]
    /\ LET ds == ChipDataset(config, split_ind, num_splits)
       IN  /\ dataset' = [dataset EXCEPT ![p] = ds]
           /\ IF ChipNothing(ds)
              THEN /\ pc' = [pc EXCEPT ![p] = "done"]
                   /\ writer' = [writer EXCEPT ![p] = "none"]
                   /\ phase' = [phase EXCEPT ![p] = "none"]
                   /\ queue' = [queue EXCEPT ![p] = <<>>]
              ELSE /\ pc' = [pc EXCEPT ![p] = "c_scenes"]
                   /\ writer' = [writer EXCEPT ![p] = "open"]
                   /\ phase' = [phase EXCEPT ![p] = "train"]
                   /\ queue' = [queue EXCEPT ![p] = ds.train_scenes]
    /\ UNCHANGED <<config, cli, bundle, self_backend, loaded, active>>

\* chip_scene(s.build(...), split) up to the loop: build, activate, windows.
ChipScene(p) ==
    /\ pc[p] = "c_scenes"
    /\ queue[p] # <<>>
    /\ LET s == Head(queue[p])
       IN  /\ built' = [built EXCEPT ![p] = Append(@, s)]
           /\ scene' = [scene EXCEPT ![p] = s]
           /\ active' = [active EXCEPT ![p] = @ \cup {s}]
           /\ windows' = [windows EXCEPT ![p] = get_train_windows(s)]
    /\ idx' = [idx EXCEPT ![p] = 0]
    /\ trace' = [trace EXCEPT ![p] = <<>>]
    /\ pc' = [pc EXCEPT ![p] = "c_loop"]
    /\ UNCHANGED <<config, cli, bundle, runs, cmd, backendVars, backend,
                   dataset, phase,
                   queue, writer, batch_chips, batch_windows, labels, saved,
                   written, error>>

\* Mutant: every sample is marked as a training sample.
IsTrainAlways(split) == TRUE

\* is_train=split == TRAIN
IsTrain(split) == split = "train"

\* The calls one iteration of the chip loop makes, in order.
SampleCalls(bk, window) ==
    <<Event("get_chip", bk, <<window>>),
      Event("get_train_labels", bk, <<window>>),
      Event("post_process_sample", bk, <<window>>),
      Event("write_sample", bk, <<window>>)>>

\* One iteration of the loop over the training windows: one sample written.
ChipWindow(p) ==
    /\ pc[p] = "c_loop"
    /\ idx[p] < Len(windows[p])
    /\ LET window == windows[p][idx[p] + 1]
           sample == post_process_sample(
                         DataSample(get_chip(scene[p], window), window,
                                    get_train_labels(window, scene[p]),
                                    scene[p], IsTrain(phase[p])))
       IN  /\ written' = [written EXCEPT ![p] =
                   Append(@, [sample |-> sample, writer |-> writer[p],
                              active |-> scene[p] \in active[p]])]
           /\ trace' = [trace EXCEPT ![p] = @ \o SampleCalls(backend[p], window)]
    /\ idx' = [idx EXCEPT ![p] = @ + 1]
    /\ UNCHANGED <<config, cli, bundle, runs, pc, cmd, backendVars, backend,
                   dataset, phase,
                   queue, built, active, writer, scene, windows, batch_chips,
                   batch_windows, labels, saved, error>>

\* The loop is over: the with scene.activate() block ends.
ChipSceneEnd(p) ==
    /\ pc[p] = "c_loop"
    /\ idx[p] = Len(windows[p])
    /\ active' = [active EXCEPT ![p] = ScopeExit(@, scene[p])]
    /\ queue' = [queue EXCEPT ![p] = Tail(@)]
    /\ scene' = [scene EXCEPT ![p] = 0]
    /\ windows' = [windows EXCEPT ![p] = <<>>]
    /\ idx' = [idx EXCEPT ![p] = 0]
    /\ trace' = [trace EXCEPT ![p] = <<>>]
    /\ pc' = [pc EXCEPT ![p] = "c_scenes"]
    /\ UNCHANGED <<config, cli, bundle, runs, cmd, backendVars, backend,
                   dataset, phase,
                   built, writer, batch_chips, batch_windows, labels, saved,
                   written, error>>

\* The train scenes are done: for s in dataset.validation_scenes
ChipValidation(p) ==
    /\ pc[p] = "c_scenes"
    /\ queue[p] = <<>>
    /\ phase[p] = "train"
    /\ phase' = [phase EXCEPT ![p] = "validation"]
    /\ queue' = [queue EXCEPT ![p] = dataset[p].validation_scenes]
    /\ UNCHANGED <<config, cli, bundle, runs, pc, cmd, backendVars, backend,
                   dataset, built,
                   active, writer, sceneVars, saved, written, error>>

\* Both loops are done: the sample writer scope ends, chip() returns.
ChipEnd(p) ==
    /\ pc[p] = "c_scenes"
    /\ queue[p] = <<>>
    /\ phase[p] = "validation"
    /\ writer' = [writer EXCEPT ![p] = WriterExit(@)]
    /\ pc' = [pc EXCEPT ![p] = "done"]
    /\ UNCHANGED <<config, cli, bundle, runs, cmd, backendVars, backend,
                   dataset, phase,
                   queue, built, active, sceneVars, saved, written, error>>

\* An exception in one of the calls of a loop iteration, or while a scene
\* is built or activated.
ChipFail(p) ==
    /\ \/ /\ pc[p] = "c_scenes"
          /\ queue[p] # <<>>
          /\ UNCHANGED trace
          /\ \E site \in {"scene.build", "activate"} : Raise(p, site)
       \/ /\ pc[p] = "c_loop"
          /\ idx[p] < Len(windows[p])
          /\ \E n \in 1 .. 4 :
               LET calls == SampleCalls(backend[p], windows[p][idx[p] + 1])
               IN  /\ trace' = [trace EXCEPT ![p] = @ \o SubSeq(calls, 1, n)]
                   /\ Raise(p, calls[n].op)
    /\ UNCHANGED <<config, cli, bundle, runs, cmd, backendVars, backend,
                   dataset, phase,
                   queue, built, scene, windows, idx, batch_chips,
                   batch_windows, labels, saved, written>>

\* ---------------------------------------------------------------- train
\* Mutant: train keeps the backend it built in self.backend.
TrainBeginCaches(p) ==
    /\ StartCommand(p, "train", 0, 1, 1)
    /\ builds' = [builds EXCEPT ![p] = @ + 1]
    /\ backend' = [backend EXCEPT ![p] = builds[p] + 1]
    /\ self_backend' = [self_backend EXCEPT ![p] = builds[p] + 1]
    /\ dataset' = [dataset EXCEPT ![p] = EmptyDataset]
    /\ pc' = [pc EXCEPT ![p] = "t_train"]
    /\ phase' = [phase EXCEPT ![p] = "none"]
    /\ queue' = [queue EXCEPT ![p] = <<>>]
    /\ writer' = [writer EXCEPT ![p] = "none"]
    /\ error' = [error EXCEPT ![p] = NoError]
    /\ UNCHANGED <<config, cli, bundle, loaded, active>>

\* train(): backend = self.config.backend.build(...), a local.
TrainBegin(p) ==
    /\ StartCommand(p, "train", 0, 1, 1)
    /\ builds' = [builds EXCEPT ![p] = @ + 1]
    /\ backend' = [backend EXCEPT ![p] = builds[p] + 1]
    /\ dataset' = [dataset EXCEPT ![p] = EmptyDataset]
    /\ pc' = [pc EXCEPT ![p] = "t_train"]
    /\ phase' = [phase EXCEPT ![p] = "none"]
    /\ queue' = [queue EXCEPT ![p] = <<>>]
    /\ writer' = [writer EXCEPT ![p] = "none"]
    /\ error' = [error EXCEPT ![p] = NoError]
    /\ UNCHANGED <<config, cli, bundle, self_backend, loaded, active>>

\* backend.train(source_bundle_uri=...) returns.
TrainRun(p) ==
    /\ pc[p] = "t_train"
    /\ pc' = [pc EXCEPT ![p] = "done"]
    /\ UNCHANGED <<config, cli, bundle, runs, cmd, backendVars, backend,
                   dataset, phase, queue, built, active, writer, sceneVars,
                   saved, written, error>>

\* backend.train raises.
TrainFail(p) ==
    /\ pc[p] = "t_train"
    /\ Raise(p, "train")
    /\ UNCHANGED <<config, cli, bundle, runs, cmd, backendVars, backend,
                   dataset, phase, queue, built, sceneVars, saved, written>>

\* ---------------------------------------------------------------- bundle
\* File names are numbers: the declared files are 1, 2, ... and
\* 'pipeline-config.json' is 0.
PipelineConfigJson == 0

File(uri, name) == [uri |-> uri, name |-> name]

\* Mutant: the archive is made before the configuration is copied.
BundleFilesNoConfig(cfg) ==
    [i \in 1 .. Len(cfg.backend_files) |->
        File(<<"train_uri", cfg.backend_files[i]>>, cfg.backend_files[i])]
    \o Flatten([a \in 1 .. Len(cfg.analyzer_files) |->
        [i \in 1 .. Len(cfg.analyzer_files[a]) |->
            File(<<"analyze_uri", cfg.analyzer_files[a][i]>>,
                 cfg.analyzer_files[a][i])]])

\* The files bundle() downloads and copies into bundle_dir, in order: the
\* backend's under train_uri, each analyzer's under analyze_uri, then the
\* configuration as pipeline-config.json.
BundleFiles(cfg) ==
    [i \in 1 .. Len(cfg.backend_files) |->
        File(<<"train_uri", cfg.backend_files[i]>>, cfg.backend_files[i])]
    \o Flatten([a \in 1 .. Len(cfg.analyzer_files) |->
        [i \in 1 .. Len(cfg.analyzer_files[a]) |->
            File(<<"analyze_uri", cfg.analyzer_files[a][i]>>,
                 cfg.analyzer_files[a][i])]])
    \o <<File(<<"config_uri", PipelineConfigJson>>, PipelineConfigJson)>>

\* download_if_needed(uri, tmp_dir) finds the file (it raises otherwise).
Downloadable(cfg, uri) == uri \in cfg.present

\* bundle(): the temporary directory and bundle_dir are made.
BundleBegin(p) ==
    /\ StartCommand(p, "bundle", 0, 1, 0)
    /\ bundle' = [bundle EXCEPT ![p] =
                      [NoBundle EXCEPT !.todo = BundleFiles(config)]]
    /\ pc' = [pc EXCEPT ![p] = "b_copy"]
    /\ error' = [error EXCEPT ![p] = NoError]
    /\ writer' = [writer EXCEPT ![p] = "none"]
    /\ UNCHANGED <<config, cli, backendVars, backend, dataset, phase, queue, active>>

\* The next file is downloaded and copied into bundle_dir; if it is missing
\* the exception leaves bundle() and the temporary directory is removed.
BundleCopy(p) ==
    /\ pc[p] = "b_copy"
    /\ bundle[p].todo # <<>>
    /\ LET f == Head(bundle[p].todo)
       IN  IF Downloadable(config, f.uri)
           THEN /\ bundle' = [bundle EXCEPT
                       ![p].todo = Tail(@),
                       ![p].staged = @ \cup {f.name},
                       ![p].copied = @ + 1]
                /\ UNCHANGED <<pc, error>>
           ELSE /\ bundle' = [bundle EXCEPT ![p].staged = {}]
                /\ pc' = [pc EXCEPT ![p] = "failed"]
                /\ error' = [error EXCEPT ![p] =
                                 [site |-> "download_if_needed", scene |-> 0]]
    /\ UNCHANGED <<config, cli, runs, cmd, backendVars, backend, dataset, phase,
                   queue, built, active, writer, sceneVars, saved, written>>

\* zipdir(bundle_dir, model_bundle_path): the archive of the staged files.
BundleZip(p) ==
    /\ pc[p] = "b_copy"
    /\ bundle[p].todo = <<>>
    /\ bundle' = [bundle EXCEPT ![p].archives = Append(@, bundle[p].staged)]
    /\ pc' = [pc EXCEPT ![p] = "b_upload"]
    /\ UNCHANGED <<config, cli, runs, cmd, backendVars, backend, dataset, phase,
                   queue, built, active, writer, sceneVars, saved, written,
                   error>>

\* upload_or_copy(model_bundle_path, model_bundle_uri); the temporary
\* directory is removed, bundle() returns.
BundleUpload(p) ==
    /\ pc[p] = "b_upload"
    /\ bundle' = [bundle EXCEPT
                      ![p].uploads = Append(@, bundle[p].archives[Len(bundle[p].archives)]),
                      ![p].staged = {}]
    /\ pc' = [pc EXCEPT ![p] = "done"]
    /\ UNCHANGED <<config, cli, runs, cmd, backendVars, backend, dataset, phase,
                   queue, built, active, writer, sceneVars, saved, written,
                   error>>

\* ---------------------------------------------------------------- rv predict
\* Strings are sequences of characters: two digits, a letter and the space.
Digits == {"1", "2"}

Chars == Digits \cup {"x", " "}

\* The state of the command line before it is used.
NoCli ==
    [pc |-> "none", given |-> FALSE, args |-> <<>>, is_none |-> TRUE,
     value |-> <<>>, channel_order |-> <<>>, predictor |-> "none",
     predictor_channel_order |-> [is_none |-> TRUE, ints |-> <<>>],
     predicted |-> FALSE]

\* OptionEatAll.parser_process: value = str(value), then every remaining
\* argument is appended after one space.
RECURSIVE EatAll(_, _)
EatAll(value, rargs) ==
    IF rargs = <<>> THEN value
    ELSE EatAll(value \o <<" ">> \o Head(rargs), Tail(rargs))

\* Mutant: runs of spaces separate the tokens, as str.split() does.
RECURSIVE split_whitespace(_)
split_whitespace(str) ==
    IF \A i \in 1 .. Len(str) : str[i] # " "
    THEN IF str = <<>> THEN <<>> ELSE <<str>>
    ELSE LET k == CHOOSE i \in 1 .. Len(str) :
                      str[i] = " " /\ \A j \in 1 .. (i - 1) : str[j] # " "
         IN  (IF k = 1 THEN <<>> ELSE <<SubSeq(str, 1, k - 1)>>)
                 \o split_whitespace(SubSeq(str, k + 1, Len(str)))

\* channel_order.split(' '): the pieces between single spaces, empty
\* pieces included.
RECURSIVE split(_)
split(str) ==
    IF \A i \in 1 .. Len(str) : str[i] # " "
    THEN <<str>>
    ELSE LET k == CHOOSE i \in 1 .. Len(str) :
                      str[i] = " " /\ \A j \in 1 .. (i - 1) : str[j] # " "
         IN  <<SubSeq(str, 1, k - 1)>> \o split(SubSeq(str, k + 1, Len(str)))

\* int(channel_ind) raises ValueError unless the token is a decimal numeral.
IntRaises(tok) == tok = <<>> \/ \E i \in 1 .. Len(tok) : tok[i] \notin Digits

DigitValue(c) == IF c = "1" THEN 1 ELSE 2

\* int(channel_ind) of a decimal numeral.
RECURSIVE int(_)
int(tok) ==
    IF Len(tok) = 1 THEN DigitValue(tok[1])
    ELSE 10 * int(SubSeq(tok, 1, Len(tok) - 1)) + DigitValue(tok[Len(tok)])

\* click hands the command the option's value: None when --channel-order
\* is absent, else what OptionEatAll made of the arguments after it.
CliParse ==
    /\ cli.pc = "cmdline"
    /\ cli' = IF cli.given
              THEN [cli EXCEPT !.pc = "convert", !.is_none = FALSE,
                               !.value = EatAll(Head(cli.args), Tail(cli.args))]
              ELSE [cli EXCEPT !.pc = "convert", !.is_none = TRUE]
    /\ UNCHANGED <<config, runs, pc, cmd, backendVars, backend, dataset, phase,
                   queue, built, active, writer, sceneVars, saved, written,
                   error, bundle>>

\* if channel_order is not None: channel_order = [int(channel_ind) for ...]
\* The first token int() rejects ends the command.
CliConvert ==
    /\ cli.pc = "convert"
    /\ IF cli.is_none
       THEN cli' = [cli EXCEPT !.pc = "construct"]
       ELSE LET toks == split(cli.value)
            IN  IF \E i \in 1 .. Len(toks) : IntRaises(toks[i])
                THEN cli' = [cli EXCEPT !.pc = "failed"]
                ELSE cli' = [cli EXCEPT
                                !.pc = "construct",
                                !.channel_order =
                                    [i \in 1 .. Len(toks) |-> int(toks[i])]]
    /\ UNCHANGED <<config, runs, pc, cmd, backendVars, backend, dataset, phase,
                   queue, built, active, writer, sceneVars, saved, written,
                   error, bundle>>

\* predictor = Predictor(model_bundle, tmp_dir, channel_order)
CliPredictor ==
    /\ cli.pc = "construct"
    /\ cli' = [cli EXCEPT
                  !.pc = "predict",
                  !.predictor = "constructed",
                  !.predictor_channel_order =
                      [is_none |-> cli.is_none, ints |-> cli.channel_order]]
    /\ UNCHANGED <<config, runs, pc, cmd, backendVars, backend, dataset, phase,
                   queue, built, active, writer, sceneVars, saved, written,
                   error, bundle>>

\* predictor.predict([image_uri], output_uri)
CliPredict ==
    /\ cli.pc = "predict"
    /\ cli' = [cli EXCEPT !.pc = "done", !.predicted = TRUE]
    /\ UNCHANGED <<config, runs, pc, cmd, backendVars, backend, dataset, phase,
                   queue, built, active, writer, sceneVars, saved, written,
                   error, bundle>>

\* ---------------------------------------------------------------- system
Configs ==
    [dataset : Datasets,
     predict_batch_sz : 0 .. MaxBatch,
     predict_chip_sz : {1, MaxChip},
     extents : {Extents},
     backend_files : {<<>>},
     analyzer_files : {<<>>},
     present : {{}}]

\* Every instance before its first command.
InitRest ==
    /\ pc = [p \in Procs |-> "idle"]
    /\ self_backend = [p \in Procs |-> NoBackend]
    /\ builds = [p \in Procs |-> 0]
    /\ loaded = [p \in Procs |-> <<>>]
    /\ backend = [p \in Procs |-> NoBackend]
    /\ dataset = [p \in Procs |-> EmptyDataset]
    /\ phase = [p \in Procs |-> "none"]
    /\ queue = [p \in Procs |-> <<>>]
    /\ built = [p \in Procs |-> <<>>]
    /\ active = [p \in Procs |-> {}]
    /\ writer = [p \in Procs |-> "none"]
    /\ scene = [p \in Procs |-> 0]
    /\ windows = [p \in Procs |-> <<>>]
    /\ idx = [p \in Procs |-> 0]
    /\ batch_chips = [p \in Procs |-> <<>>]
    /\ batch_windows = [p \in Procs |-> <<>>]
    /\ labels = [p \in Procs |-> empty_labels]
    /\ trace = [p \in Procs |-> <<>>]
    /\ saved = [p \in Procs |-> <<>>]
    /\ written = [p \in Procs |-> <<>>]
    /\ error = [p \in Procs |-> NoError]
    /\ bundle = [p \in Procs |-> NoBundle]

InitLocals ==
    /\ cmd = [p \in Procs |-> NoCmd]
    /\ InitRest

\* One pipeline instance, one command invocation with any shard arguments.
Init ==
    /\ config \in Configs
    /\ runs = [p \in Procs |-> IF p = 0 THEN 1 ELSE 0]
    /\ InitLocals
    /\ cli = NoCli

Work(p) ==
    \/ PredictBuild(p)
    \/ PredictActivate(p)
    \/ PredictTest(p)
    \/ PredictEnd(p)
    \/ PredictSceneBegin(p)
    \/ PredictWindow(p)
    \/ PredictRemaining(p)
    \/ PredictSave(p)
    \/ PredictDeactivate(p)
    \/ ChipScene(p)
    \/ ChipWindow(p)
    \/ ChipSceneEnd(p)
    \/ ChipValidation(p)
    \/ ChipEnd(p)

Fail(p) ==
    \/ PredictFail(p)
    \/ ChipFail(p)
    \/ TrainFail(p)

Next ==
    \E p \in Procs :
        \/ \E n \in 1 .. MaxSplits : \E i \in 0 .. (n - 1) :
               \/ PredictBegin(p, i, n)
               \/ PredictBeginFail(p, i, n)
               \/ ChipBegin(p, i, n)
        \/ TrainBegin(p)
        \/ TrainRun(p)
        \/ Work(p)
        \/ Fail(p)

Spec == Init /\ [][Next]_vars

\* One pipeline instance, several command invocations one after the other,
\* on scenes with small rasters.
SeqConfigs ==
    [dataset : Datasets,
     predict_batch_sz : {1, MaxBatch},
     predict_chip_sz : {1},
     extents : {{Box(0, 0, 1, 1), Box(0, 0, 1, 2)}},
     backend_files : {<<>>},
     analyzer_files : {<<>>},
     present : {{}}]

InitSeq ==
    /\ config \in SeqConfigs
    /\ runs = [p \in Procs |-> IF p = 0 THEN MaxRuns ELSE 0]
    /\ InitLocals
    /\ cli = NoCli

SpecSeq == InitSeq /\ [][Next]_vars

\* num_splits pipeline instances, instance p invoked once with
\* (split_ind, num_splits) = (p, num_splits), all on the same command of the
\* same configuration, running independently; no call fails.
ShardConfigs ==
    [dataset : Datasets,
     predict_batch_sz : {1, MaxBatch},
     predict_chip_sz : {1},
     extents : {{Box(0, 0, 1, 2)}},
     backend_files : {<<>>},
     analyzer_files : {<<>>},
     present : {{}}]

InitShards ==
    /\ config \in ShardConfigs
    /\ \E n \in 1 .. MaxSplits : \E name \in {"chip", "predict"} :
         /\ runs = [p \in Procs |-> IF p < n THEN 1 ELSE 0]
         /\ cmd = [p \in Procs |->
                      IF p < n
                      THEN [NoCmd EXCEPT !.name = name, !.split_ind = p,
                                         !.num_splits = n]
                      ELSE NoCmd]
    /\ InitRest
    /\ cli = NoCli

NextShards ==
    \E p \in Procs :
        \/ /\ cmd[p].name = "predict"
           /\ PredictBegin(p, cmd[p].split_ind, cmd[p].num_splits)
        \/ /\ cmd[p].name = "chip"
           /\ ChipBegin(p, cmd[p].split_ind, cmd[p].num_splits)
        \/ Work(p)

SpecShards == InitShards /\ [][NextShards]_vars

\* One pipeline instance running bundle: a backend and analyzers that
\* declare bundle files, any of which may be missing at its source.
FileLists == {SeqRange(1, n) : n \in 0 .. MaxFiles}

BundleUris ==
    {<<"config_uri", PipelineConfigJson>>}
        \cup {<<dir, fn>> : dir \in {"train_uri", "analyze_uri"},
                            fn \in 1 .. MaxFiles}

BundleConfigs ==
    [dataset : {EmptyDataset},
     predict_batch_sz : {1},
     predict_chip_sz : {1},
     extents : {{}},
     backend_files : FileLists,
     analyzer_files : {[a \in 1 .. na |-> fl] :
                          na \in 0 .. MaxFiles, fl \in FileLists},
     present : SUBSET BundleUris]

InitBundle ==
    /\ config \in BundleConfigs
    /\ runs = [p \in Procs |-> IF p = 0 THEN 1 ELSE 0]
    /\ InitLocals
    /\ cli = NoCli

NextBundle ==
    \E p \in Procs :
        \/ BundleBegin(p)
        \/ BundleCopy(p)
        \/ BundleZip(p)
        \/ BundleUpload(p)

SpecBundle == InitBundle /\ [][NextBundle]_vars

\* One pipeline instance predicting one validation scene whose raster has
\* any small extent, with any chip size.
TileExtents ==
    {Box(y, x, y + h, x + w) :
        y \in 0 .. 1, x \in 0 .. 1, h \in 0 .. MaxTile, w \in 0 .. MaxTile}

TileConfigs ==
    [dataset : {[EmptyDataset EXCEPT !.validation_scenes = <<1>>]},
     predict_batch_sz : {MaxBatch},
     predict_chip_sz : 1 .. MaxChip,
     extents : {{e} : e \in TileExtents},
     backend_files : {<<>>},
     analyzer_files : {<<>>},
     present : {{}}]

InitWindows ==
    /\ config \in TileConfigs
    /\ runs = [p \in Procs |-> IF p = 0 THEN 1 ELSE 0]
    /\ InitLocals
    /\ cli = NoCli

NextWindows ==
    \E p \in Procs :
        \/ PredictBegin(p, 0, 1)
        \/ PredictBuild(p)
        \/ PredictActivate(p)
        \/ PredictSceneBegin(p)
        \/ PredictWindow(p)
        \/ PredictRemaining(p)
        \/ PredictSave(p)
        \/ PredictDeactivate(p)
        \/ PredictEnd(p)

SpecWindows == InitWindows /\ [][NextWindows]_vars

\* The rv predict command line: --channel-order absent, or followed by
\* up to MaxArgs arguments of up to MaxArgLen characters.
Strings(n) == UNION {[1 .. k -> Chars] : k \in 0 .. n}

CliInputs ==
    {[NoCli EXCEPT !.pc = "cmdline"]}
        \cup {[NoCli EXCEPT !.pc = "cmdline", !.given = TRUE, !.args = a] :
                 a \in UNION {[1 .. k -> Strings(MaxArgLen)] :
                                 k \in 1 .. MaxArgs}}

InitCli ==
    /\ config \in BundleConfigs
    /\ config.backend_files = <<>> /\ config.analyzer_files = <<>>
    /\ config.present = {}
    /\ runs = [p \in Procs |-> 0]
    /\ InitLocals
    /\ cli \in CliInputs

NextCli ==
    \/ CliParse
    \/ CliConvert
    \/ CliPredictor
    \/ CliPredict

SpecCli == InitCli /\ [][NextCli]_vars

\* ---------------------------------------------------------------- properties
\* Instances running (or having run) the named command.
Running(p, name) == cmd[p].name = name /\ pc[p] # "idle"

\* The chips of all windows of p's scene, in window order.
AllChips(p) == [i \in 1 .. Len(windows[p]) |-> get_chip(scene[p], windows[p][i])]

\* The Labels of one backend invocation on a single batch of all windows.
SingleBatchLabels(p) ==
    post_process_predictions(
        LabelsAdd(empty_labels,
                  post_process_batch(windows[p], AllChips(p),
                                     BackendPredict(AllChips(p), windows[p]))),
        scene[p])

CeilDiv(a, b) == (a + b - 1) \div b

\* C1: for every batch size >= 1 the Labels predict_scene returns equal the
\* Labels of one backend invocation on a single batch of all the windows.
C1_BatchSizeNotObservable ==
    \A p \in Procs :
        (pc[p] = "p_save" /\ config.predict_batch_sz >= 1)
            => labels[p] = SingleBatchLabels(p)

\* C1 witness: five windows predicted in three batches of size two at most.
C1_Witness ==
    \E p \in Procs :
        /\ pc[p] = "p_save"
        /\ config.predict_batch_sz = 2
        /\ Len(windows[p]) = 5
        /\ Len(PredictCalls(trace[p])) = 3
        /\ DOMAIN labels[p] = Range(windows[p])

\* C2: every window is passed to the backend in exactly one batch, and the
\* batches in invocation order, concatenated, are the windows in generation
\* order (during the loop: the windows consumed so far are the flushed
\* batches followed by the buffer).
C2_BatchesPartitionWindows ==
    \A p \in Procs :
        /\ pc[p] = "p_loop" =>
               PredictedWindows(trace[p]) \o batch_windows[p]
                   = SubSeq(windows[p], 1, idx[p])
        /\ pc[p] = "p_save" =>
               /\ PredictedWindows(trace[p]) = windows[p]
               /\ \A w \in Range(windows[p]) :
                      Cardinality({i \in 1 .. Len(PredictCalls(trace[p])) :
                          w \in Range(PredictCalls(trace[p])[i])}) = 1

\* C2 witness: a scene whose windows went to the backend in a full batch and
\* a trailing partial one.
C2_Witness ==
    \E p \in Procs :
        /\ pc[p] = "p_save"
        /\ config.predict_batch_sz = 2
        /\ Len(windows[p]) = 3
        /\ Len(PredictCalls(trace[p])) = 2

\* C3: with N windows and batch size B >= 1 the backend is invoked
\* ceil(N/B) times, every invocation but the last with B chips and the last
\* with N - B * (ceil(N/B) - 1).
C3_InvocationCount ==
    \A p \in Procs :
        (pc[p] = "p_save" /\ config.predict_batch_sz >= 1) =>
            LET N == Len(windows[p])
                B == config.predict_batch_sz
                calls == PredictCalls(trace[p])
            IN  /\ Len(calls) = CeilDiv(N, B)
                /\ \A i \in 1 .. Len(calls) :
                       Len(calls[i]) = IF i < Len(calls)
                                       THEN B
                                       ELSE N - B * (CeilDiv(N, B) - 1)

\* C3 witness: N = 5, B = 2 gives invocations of sizes 2, 2, 1.
C3_Witness ==
    \E p \in Procs :
        /\ pc[p] = "p_save"
        /\ config.predict_batch_sz = 2
        /\ Len(windows[p]) = 5
        /\ [i \in 1 .. Len(PredictCalls(trace[p])) |->
               Len(PredictCalls(trace[p])[i])] = <<2, 2, 1>>

\* The scenes of the saved predictions, in save order.
SavedScenes(p) == [i \in 1 .. Len(saved[p]) |-> saved[p][i].scene]

\* C5: a successful predict saves predictions exactly once for every
\* validation and test scene of its shard, validation scenes in collection
\* order before test scenes, each save after all of the scene's windows were
\* predicted and while the scene is active.
C5_PredictSavesEveryScene ==
    \A p \in Procs :
        /\ (Running(p, "predict") /\ pc[p] = "done") =>
               SavedScenes(p) =
                   dataset[p].validation_scenes \o dataset[p].test_scenes
        /\ Running(p, "predict") =>
               \A i \in 1 .. Len(saved[p]) :
                   saved[p][i].active /\ saved[p][i].complete

\* C5 witness: a finished predict over two validation scenes and a test scene.
C5_Witness ==
    \E p \in Procs :
        /\ Running(p, "predict")
        /\ pc[p] = "done"
        /\ Len(dataset[p].validation_scenes) = 2
        /\ Len(dataset[p].test_scenes) >= 1
        /\ Len(saved[p]) >= 3

\* C6 as stated: every predict invocation builds the backend and calls
\* load_model exactly once, and uses that backend for every call.
C6_BuiltExactlyOncePerInvocation ==
    \A p \in Procs :
        (Running(p, "predict") /\ pc[p] # "failed") =>
            /\ cmd[p].builds = 1
            /\ backend[p] = self_backend[p]
            /\ \A i \in 1 .. Len(trace[p]) :
                   trace[p][i].backend = self_backend[p]

\* C6, amended: a predict invocation builds the backend and calls load_model
\* at most once: once if the instance had no cached backend when predict
\* started, not at all if an earlier predict had cached one; in both cases
\* load_model has been called exactly once on the cached backend before any
\* scene is predicted, and every call of every scene uses that instance.
C6_BackendBuiltAtMostOnce ==
    \A p \in Procs :
        (Running(p, "predict") /\ pc[p] # "failed") =>
            /\ cmd[p].builds = IF cmd[p].cached THEN 0 ELSE 1
            /\ self_backend[p] # NoBackend
            /\ loaded[p] = <<self_backend[p]>>
            /\ backend[p] = self_backend[p]
            /\ \A i \in 1 .. Len(trace[p]) :
                   trace[p][i].backend = self_backend[p]

\* C6 witness: a later predict on the same instance predicts its second
\* scene in batches with the backend the first predict cached.
C6_Witness ==
    \E p \in Procs :
        /\ Running(p, "predict")
        /\ cmd[p].cached
        /\ pc[p] = "p_save"
        /\ Len(saved[p]) >= 1
        /\ Len(PredictCalls(trace[p])) >= 2

\* C7: once chip or predict has ended, normally or by a failure inside an
\* activation scope, no scene is active and the sample writer scope is left.
C7_ScenesReleased ==
    \A p \in Procs :
        pc[p] \in {"done", "failed"} =>
            /\ active[p] = {}
            /\ writer[p] # "open"

\* C7 witness: a command that failed inside an activation scope.
C7_Witness ==
    \E p \in Procs :
        /\ pc[p] = "failed"
        /\ error[p].scene # 0
        /\ error[p].site \in {"get_chip", "get_train_labels", "predict",
                              "post_process_batch", "write_sample", "save"}

\* The scenes a predict invocation processes, in processing order.
PredictScenes(p) == dataset[p].validation_scenes \o dataset[p].test_scenes

\* C8: when backend.predict fails on a batch of scene k the predict command
\* fails; the batch is not retried and is the last call made, scene k is not
\* saved, no later scene is activated or saved, and the scenes before k stay
\* saved.
C8_PredictFailurePropagates ==
    \A p \in Procs :
        (Running(p, "predict") /\ error[p].site = "predict") =>
            LET calls == PredictCalls(trace[p])
            IN  /\ pc[p] = "failed"
                /\ trace[p][Len(trace[p])].op = "predict"
                /\ Cardinality({i \in 1 .. Len(calls) :
                                    calls[i] = calls[Len(calls)]}) = 1
                /\ active[p] = {}
                /\ \E k \in 1 .. Len(PredictScenes(p)) :
                       /\ PredictScenes(p)[k] = error[p].scene
                       /\ SavedScenes(p) = SubSeq(PredictScenes(p), 1, k - 1)

\* C8 witness: backend.predict failed on the second batch of the second scene.
C8_Witness ==
    \E p \in Procs :
        /\ pc[p] = "failed"
        /\ error[p].site = "predict"
        /\ Len(saved[p]) = 1
        /\ Len(PredictCalls(trace[p])) = 2

\* The shard of p's command has no train scene and no validation scene.
EmptyShard(p) ==
    /\ SplitScenes(config.dataset.train_scenes, cmd[p].split_ind,
                   cmd[p].num_splits) = <<>>
    /\ SplitScenes(config.dataset.validation_scenes, cmd[p].split_ind,
                   cmd[p].num_splits) = <<>>

\* C10: a chip invocation whose shard has no train and no validation scene
\* returns normally without opening the sample writer, building or
\* activating a scene, or writing a sample.
C10_EmptyShardIsNoOp ==
    \A p \in Procs :
        (Running(p, "chip") /\ EmptyShard(p)) =>
            /\ pc[p] = "done"
            /\ error[p] = NoError
            /\ writer[p] = "none"
            /\ active[p] = {}
            /\ built[p] = <<>>
            /\ written[p] = <<>>

\* C10 witness: shard 0 of 2 of a dataset with a single train scene is empty.
C10_Witness ==
    \E p \in Procs :
        /\ Running(p, "chip")
        /\ pc[p] = "done"
        /\ EmptyShard(p)
        /\ config.dataset.train_scenes # <<>>

\* The shards of a fleet of independent invocations.
Shards == {p \in Procs : cmd[p].name # "none"}

\* How many times x occurs in the sequence sq.
Count(sq, x) == Cardinality({i \in 1 .. Len(sq) : sq[i] = x})

RECURSIVE SumOver(_, _)
SumOver(f, S) ==
    IF S = {} THEN 0
    ELSE LET x == CHOOSE y \in S : TRUE IN f[x] + SumOver(f, S \ {x})

\* The samples written by instance p, in order.
WrittenSamples(p) == [i \in 1 .. Len(written[p]) |-> written[p][i].sample]

\* The sample chip writes for window w of scene s of the configured dataset.
SampleOf(s, w) ==
    post_process_sample(
        DataSample(get_chip(s, w), w, get_train_labels(w, s), s,
                   s \in Range(config.dataset.train_scenes)))

\* The samples the unsharded chip(0, 1) writes for the configured dataset.
UnshardedSamples ==
    UNION {{SampleOf(s, w) : w \in Range(get_train_windows(s))} :
              s \in Range(config.dataset.train_scenes)
                       \cup Range(config.dataset.validation_scenes)}

\* The scenes the unsharded predict(0, 1) saves predictions for.
UnshardedPredicted ==
    Range(config.dataset.validation_scenes)
        \cup Range(config.dataset.test_scenes)

AllShardsDone == \A p \in Shards : pc[p] = "done"

\* C4: when chip (resp. predict) is run once for every split_ind in
\* 0..num_splits-1 as independent invocations, in any interleaving, no scene
\* is processed by two shards, and once all shards are done every sample
\* (resp. every scene's predictions) of the unsharded run has been written
\* (resp. saved) exactly once, and nothing else has.
C4_ShardsPartitionTheWork ==
    /\ \A p, q \in Shards :
           p # q => Range(built[p]) \cap Range(built[q]) = {}
    /\ AllShardsDone =>
           /\ \A p \in Shards :
                  /\ Range(WrittenSamples(p)) \subseteq UnshardedSamples
                  /\ Range(SavedScenes(p)) \subseteq UnshardedPredicted
           /\ \A p \in Shards : cmd[p].name = "chip" =>
                  \A x \in UnshardedSamples :
                      SumOver([q \in Shards |-> Count(WrittenSamples(q), x)],
                              Shards) = 1
           /\ \A p \in Shards : cmd[p].name = "predict" =>
                  \A s \in UnshardedPredicted :
                      SumOver([q \in Shards |-> Count(SavedScenes(q), s)],
                              Shards) = 1

\* C4 witness: two chip shards are done, each has written samples of a train
\* scene, and one has written a sample of a validation scene.
C4_Witness ==
    /\ Cardinality(Shards) = 2
    /\ AllShardsDone
    /\ \A p \in Shards :
           /\ cmd[p].name = "chip"
           /\ \E i \in 1 .. Len(written[p]) : written[p][i].sample.is_train
    /\ \E p \in Shards : \E j \in 1 .. Len(written[p]) :
           ~written[p][j].sample.is_train

\* The URIs bundle() needs: those of the declared files and the
\* configuration's.
DeclaredUris ==
    {<<"train_uri", fn>> : fn \in Range(config.backend_files)}
        \cup UNION {{<<"analyze_uri", fn>> :
                         fn \in Range(config.analyzer_files[a])} :
                        a \in 1 .. Len(config.analyzer_files)}
        \cup {<<"config_uri", PipelineConfigJson>>}

DeclaredNames ==
    Range(config.backend_files)
        \cup UNION {Range(config.analyzer_files[a]) :
                        a \in 1 .. Len(config.analyzer_files)}
        \cup {PipelineConfigJson}

\* C9: if a declared artifact or the configuration file is missing, bundle
\* never creates an archive, uploads nothing and does not return normally;
\* an archive is created only after every declared file and
\* pipeline-config.json are in the staging directory, and a bundle that
\* returned has produced exactly one archive and uploaded it.
C9_BundleAllOrNothing ==
    \A p \in Procs :
        Running(p, "bundle") =>
            /\ DeclaredUris \ config.present # {} =>
                   /\ bundle[p].archives = <<>>
                   /\ bundle[p].uploads = <<>>
                   /\ pc[p] # "done"
            /\ \A i \in 1 .. Len(bundle[p].archives) :
                   bundle[p].archives[i] = DeclaredNames
            /\ pc[p] = "done" =>
                   /\ Len(bundle[p].archives) = 1
                   /\ bundle[p].uploads = bundle[p].archives

\* C9 witness: bundle failed on a missing file after it had copied another.
C9_Witness ==
    \E p \in Procs :
        /\ Running(p, "bundle")
        /\ pc[p] = "failed"
        /\ error[p].site = "download_if_needed"
        /\ bundle[p].copied >= 1
        /\ bundle[p].archives = <<>>

\* ------------------------------------------------------------------
\* The samples a complete chip of instance p's shard writes: for the train
\* scenes and then the validation scenes, one sample per training window,
\* in get_train_windows order.
ExpectedSamples(p) ==
    LET scenes == dataset[p].train_scenes \o dataset[p].validation_scenes
    IN  Flatten([k \in 1 .. Len(scenes) |->
                   [i \in 1 .. Len(get_train_windows(scenes[k])) |->
                      SampleOf(scenes[k], get_train_windows(scenes[k])[i])]])

\* C11: a chip that returns has written exactly one sample per training
\* window of every scene of its shard, train scenes before validation
\* scenes, windows in get_train_windows order, is_train true exactly for
\* the train scenes; while it runs it has written a prefix of them; every
\* write_sample happened with the sample writer open and the scene active.
C11_ChipWritesEverySample ==
    \A p \in Procs :
        Running(p, "chip") =>
            /\ \A i \in 1 .. Len(written[p]) :
                   written[p][i].writer = "open" /\ written[p][i].active
            /\ Len(written[p]) <= Len(ExpectedSamples(p))
            /\ WrittenSamples(p) =
                   SubSeq(ExpectedSamples(p), 1, Len(written[p]))
            /\ pc[p] = "done" => WrittenSamples(p) = ExpectedSamples(p)

\* A chip has returned after writing two samples of a train scene and a
\* sample of a validation scene.
C11_Witness ==
    \E p \in Procs :
        /\ Running(p, "chip") /\ pc[p] = "done"
        /\ \E i, j, k \in 1 .. Len(written[p]) :
              /\ i < j /\ j < k
              /\ written[p][i].sample.is_train
              /\ written[p][j].sample.is_train
              /\ written[p][i].sample.scene_id = written[p][j].sample.scene_id
              /\ ~written[p][k].sample.is_train

\* ------------------------------------------------------------------
\* The extent of the raster when the configuration has only one.
TheExtent == CHOOSE e \in config.extents : TRUE

\* The pixels (row, column) of a box.
Pixels(box) ==
    (box.ymin .. (box.ymax - 1)) \X (box.xmin .. (box.xmax - 1))

\* C12: the prediction windows of a scene (chip size = stride =
\* predict_chip_sz >= 1) tile the extent of its raster: every pixel of the
\* extent lies in a window, no pixel lies in two windows, and the windows
\* come in row-major order.
C12_PredictWindowsTile ==
    \A p \in Procs :
        (Running(p, "predict") /\ pc[p] \in {"p_loop", "p_save", "p_exit"}) =>
            LET ws == windows[p] IN
            /\ \A px \in Pixels(TheExtent) :
                   \E i \in 1 .. Len(ws) : px \in Pixels(ws[i])
            /\ \A i, j \in 1 .. Len(ws) :
                   i < j =>
                     /\ Pixels(ws[i]) \cap Pixels(ws[j]) = {}
                     /\ \/ ws[i].ymin < ws[j].ymin
                        \/ ws[i].ymin = ws[j].ymin /\ ws[i].xmin < ws[j].xmin

\* A scene is being predicted whose raster does not start at the origin and
\* whose sides are not multiples of the chip size: several rows and columns
\* of windows, the last of each cut by the edge.
C12_Witness ==
    \E p \in Procs :
        /\ Running(p, "predict") /\ pc[p] = "p_save"
        /\ config.predict_chip_sz = 2
        /\ TheExtent.ymin > 0 /\ TheExtent.xmin > 0
        /\ get_height(TheExtent) = 3 /\ get_width(TheExtent) = 3
        /\ Len(windows[p]) = 4

\* ------------------------------------------------------------------
\* The --channel-order value of the command line.
ChannelOrderValue == EatAll(Head(cli.args), Tail(cli.args))

\* A value all of whose space-delimited tokens are decimal numerals: it is
\* not empty, does not begin or end with a space, has no two spaces in a
\* row, and everything else in it is a digit.
WellFormed(str) ==
    /\ str # <<>>
    /\ str[1] # " " /\ str[Len(str)] # " "
    /\ \A i \in 1 .. (Len(str) - 1) : ~(str[i] = " " /\ str[i + 1] = " ")
    /\ \A i \in 1 .. Len(str) : str[i] \in Digits \cup {" "}

\* C13: once rv predict has looked at its channel order, a value with a
\* token that is not an integer has ended the command with no Predictor
\* constructed and no prediction run; without the option the Predictor
\* gets no channel order; with a well-formed value it gets the integers of
\* the tokens in the order given.  No prediction runs without a Predictor.
C13_ChannelOrderParsed ==
    /\ cli.predicted => cli.predictor = "constructed"
    /\ cli.pc \in {"construct", "predict", "done", "failed"} =>
          /\ ~cli.given =>
                /\ cli.pc # "failed"
                /\ cli.predictor = "constructed" =>
                       cli.predictor_channel_order.is_none
          /\ (cli.given /\ ~WellFormed(ChannelOrderValue)) =>
                /\ cli.pc = "failed"
                /\ cli.predictor = "none"
                /\ ~cli.predicted
          /\ (cli.given /\ WellFormed(ChannelOrderValue)) =>
                /\ cli.pc # "failed"
                /\ cli.predictor = "constructed" =>
                       LET toks == split(ChannelOrderValue)
                       IN  cli.predictor_channel_order =
                               [is_none |-> FALSE,
                                ints |-> [i \in 1 .. Len(toks) |-> int(toks[i])]]

\* The command has ended on a channel order whose first token is an
\* integer and whose second token is not.
C13_Witness ==
    /\ cli.pc = "failed"
    /\ Len(cli.args) = 2
    /\ ~IntRaises(cli.args[1])
    /\ cli.args[2] # <<>> /\ cli.args[2][1] \notin Digits \cup {" "}

\* ------------------------------------------------------------------
\* C14: the backend is never invoked with an empty batch; when
\* predict_scene has returned, a scene without windows caused no
\* invocation, and with B = predict_batch_sz >= 1 and N windows there were
\* N div B invocations with B chips from the loop, followed by exactly one
\* invocation with the N mod B remaining chips if there are any and by none
\* if N is a multiple of B.
C14_NoEmptyBatch ==
    \A p \in Procs :
        Running(p, "predict") =>
            LET calls == PredictCalls(trace[p])
                N == Len(windows[p])
                B == config.predict_batch_sz
            IN  /\ \A k \in 1 .. Len(calls) : calls[k] # <<>>
                /\ pc[p] \in {"p_save", "p_exit"} =>
                      /\ N = 0 => calls = <<>>
                      /\ B >= 1 =>
                            /\ Len(calls) =
                                  (N \div B) + (IF N % B = 0 THEN 0 ELSE 1)
                            /\ \A k \in 1 .. (N \div B) : Len(calls[k]) = B
                            /\ N % B # 0 => Len(calls[Len(calls)]) = N % B

\* predict_scene has returned for a scene with more windows than the
\* batch size and a remainder: full batches, then the flush after the loop.
C14_Witness ==
    \E p \in Procs :
        /\ Running(p, "predict") /\ pc[p] = "p_save"
        /\ config.predict_batch_sz >= 2
        /\ Len(windows[p]) > config.predict_batch_sz
        /\ Len(windows[p]) % config.predict_batch_sz # 0
        /\ Len(PredictCalls(trace[p])) >= 2

\* ------------------------------------------------------------------
\* The calls of predict_scene and of the save that follows it, without the
\* reads of chips.
HookCalls(p) == SelectSeq(trace[p], LAMBDA e : e.op # "get_chip")

\* C15: in every scene's prediction each backend invocation is followed by
\* one post_process_batch of that batch and then by the merge of that
\* batch, and nothing is merged that was not post-processed just before;
\* post_process_predictions is applied at most once per scene, exactly
\* once when predict_scene has returned, after every merge and before the
\* Labels are saved.
C15_HooksAppliedOnce ==
    \A p \in Procs :
        Running(p, "predict") =>
            LET h == HookCalls(p)
                posts == {k \in 1 .. Len(h) :
                             h[k].op = "post_process_predictions"}
            IN  /\ \A k \in 1 .. Len(h) :
                      /\ (h[k].op = "predict" /\ k < Len(h)) =>
                            /\ h[k + 1].op = "post_process_batch"
                            /\ h[k + 1].windows = h[k].windows
                      /\ (h[k].op = "post_process_batch" /\ k < Len(h)) =>
                            /\ h[k + 1].op = "merge"
                            /\ h[k + 1].windows = h[k].windows
                      /\ h[k].op = "post_process_batch" =>
                            k > 1 /\ h[k - 1].op = "predict"
                      /\ h[k].op = "merge" =>
                            /\ k > 1 /\ h[k - 1].op = "post_process_batch"
                            /\ h[k - 1].windows = h[k].windows
                /\ Cardinality(posts) <= 1
                /\ pc[p] \in {"p_save", "p_exit"} => Cardinality(posts) = 1
                /\ \A k \in posts : \A m \in 1 .. Len(h) :
                      /\ h[m].op \in {"predict", "post_process_batch", "merge"}
                            => m < k
                      /\ h[m].op = "save" => m > k

\* A scene's Labels have been saved after two batches were predicted,
\* post-processed and merged.
C15_Witness ==
    \E p \in Procs :
        /\ Running(p, "predict") /\ pc[p] = "p_exit"
        /\ Len(PredictCalls(trace[p])) >= 2
        /\ \E k \in 1 .. Len(trace[p]) : trace[p][k].op = "save"

\* ------------------------------------------------------------------
\* The windows get_chip was called with for the current scene, in order.
GetChipWindows(p) ==
    LET reads == SelectSeq(trace[p], LAMBDA e : e.op = "get_chip")
    IN  [k \in 1 .. Len(reads) |-> reads[k].windows[1]]

\* C16: while chip or predict runs at most one scene is active, and it is
\* the scene being processed; between two scenes, and when the command is
\* over, no scene is active; the loops that call get_chip run with their
\* scene active, every chip they hold or have predicted or written was
\* read from that scene, and the reads follow the order of the windows.
C16_OneActiveScene ==
    \A p \in Procs :
        (Running(p, "chip") \/ Running(p, "predict")) =>
            /\ Cardinality(active[p]) <= 1
            /\ active[p] \subseteq {scene[p]}
            /\ pc[p] \in {"p_build", "p_scenes", "c_scenes", "done", "failed"}
                  => active[p] = {}
            /\ pc[p] \in {"p_scene", "p_loop", "p_save", "p_exit", "c_loop"}
                  => active[p] = {scene[p]} /\ scene[p] # 0
            /\ \A k \in 1 .. Len(batch_chips[p]) :
                  batch_chips[p][k].scene = scene[p]
            /\ \A w \in DOMAIN labels[p] : labels[p][w][2].scene = scene[p]
            /\ \A k \in 1 .. Len(written[p]) : written[p][k].active
            /\ Len(GetChipWindows(p)) <= Len(windows[p])
            /\ GetChipWindows(p) =
                   SubSeq(windows[p], 1, Len(GetChipWindows(p)))

\* The chips of a second scene are being read, after a first scene was
\* predicted and saved.
C16_Witness ==
    \E p \in Procs :
        /\ Running(p, "predict") /\ pc[p] = "p_loop"
        /\ Len(saved[p]) >= 1
        /\ Len(GetChipWindows(p)) >= 2
        /\ active[p] = {scene[p]}

\* ------------------------------------------------------------------
\* A flush has just been made for p's scene: the last call was the merge of
\* a batch, or the post-processing that directly follows the last merge.
JustFlushed(p) ==
    LET n == Len(trace[p])
    IN  \/ n >= 1 /\ trace[p][n].op = "merge"
        \/ /\ n >= 2
           /\ trace[p][n].op = "post_process_predictions"
           /\ trace[p][n - 1].op = "merge"

\* The two buffers have the same length, at most predict_batch_sz when that
\* is at least 1.
BuffersInStep(p) ==
    /\ Len(batch_chips[p]) = Len(batch_windows[p])
    /\ config.predict_batch_sz >= 1 =>
          Len(batch_chips[p]) <= config.predict_batch_sz

\* With predict_batch_sz <= 0 every window read so far was predicted as a
\* batch of its own.
SingletonBatches(p) ==
    config.predict_batch_sz <= 0 =>
        /\ pc[p] \in {"p_loop", "p_save", "p_exit"} =>
              /\ batch_chips[p] = <<>>
              /\ Len(PredictCalls(trace[p])) = idx[p]
        /\ \A k \in 1 .. Len(PredictCalls(trace[p])) :
              PredictCalls(trace[p])[k] = <<windows[p][k]>>

\* C17 as stated: the buffers are in step, empty right after every flush
\* (the flush after the loop included), and predict_batch_sz <= 0 makes
\* every window a batch of its own.
C17_BuffersEmptyAfterEveryFlush ==
    \A p \in Procs :
        Running(p, "predict") =>
            /\ BuffersInStep(p)
            /\ SingletonBatches(p)
            /\ JustFlushed(p) =>
                  batch_chips[p] = <<>> /\ batch_windows[p] = <<>>

\* C17: the buffers are in step; both are empty right after every flush
\* made inside the loop; when predict_scene has returned they are empty if
\* the number of windows is a multiple of predict_batch_sz >= 1, and
\* otherwise still hold the partial batch that the flush after the loop
\* predicted; predict_batch_sz <= 0 makes every window a batch of its own.
C17_BuffersInStep ==
    \A p \in Procs :
        Running(p, "predict") =>
            LET calls == PredictCalls(trace[p])
                N == Len(windows[p])
                B == config.predict_batch_sz
            IN  /\ BuffersInStep(p)
                /\ SingletonBatches(p)
                /\ (pc[p] = "p_loop" /\ JustFlushed(p)) =>
                      batch_chips[p] = <<>> /\ batch_windows[p] = <<>>
                /\ (pc[p] \in {"p_save", "p_exit"} /\ B >= 1) =>
                      IF N % B = 0
                      THEN batch_chips[p] = <<>> /\ batch_windows[p] = <<>>
                      ELSE /\ Len(batch_chips[p]) = N % B
                           /\ batch_windows[p] = calls[Len(calls)]

\* predict_scene has returned after a flush inside the loop and a flush
\* after the loop, and the buffers still hold the last partial batch.
C17_Witness ==
    \E p \in Procs :
        /\ Running(p, "predict") /\ pc[p] = "p_save"
        /\ config.predict_batch_sz >= 2
        /\ Len(PredictCalls(trace[p])) >= 2
        /\ JustFlushed(p)
        /\ batch_chips[p] # <<>>

\* ------------------------------------------------------------------
\* C18: through any sequence of commands on an instance, load_model has
\* been called only on the cached backend and at most once, and the cached
\* backend, once set, is never replaced or dropped; a predict that starts
\* without a cached backend builds one, caches it and loads its model
\* (unless the build raises), a predict that starts with one builds
\* nothing and uses it; chip and train build a backend of their own, use
\* it, and leave the cached one as they found it.
C18_CachedBackendBuiltOnce ==
    \A p \in Procs :
        /\ loaded[p] = IF self_backend[p] = NoBackend
                       THEN <<>> ELSE <<self_backend[p]>>
        /\ self_backend[p] <= builds[p]
        /\ (Running(p, "predict") /\ cmd[p].cached) =>
              /\ cmd[p].builds = 0
              /\ backend[p] = self_backend[p] /\ backend[p] # NoBackend
        /\ (Running(p, "predict") /\ ~cmd[p].cached
                /\ error[p].site # "build") =>
              /\ cmd[p].builds = 1
              /\ backend[p] = self_backend[p] /\ backend[p] = builds[p]
        /\ (Running(p, "chip") \/ Running(p, "train")) =>
              /\ cmd[p].builds = 1
              /\ backend[p] = builds[p] /\ backend[p] # self_backend[p]
              /\ cmd[p].cached = (self_backend[p] # NoBackend)

\* A train runs on an instance whose earlier predict cached a backend:
\* two backends were built, the model was loaded once.
C18_Witness ==
    \E p \in Procs :
        /\ Running(p, "train") /\ pc[p] = "done"
        /\ cmd[p].cached
        /\ builds[p] = 2
        /\ loaded[p] = <<1>>

\* ------------------------------------------------------------------
\* C19: in predict the scenes are built in the order validation scenes,
\* test scenes; whenever a scene is active or a prediction has been saved,
\* every validation scene has been built; whenever a test scene has been
\* built, the predictions of every validation scene have been saved; a
\* validation scene whose build raises ends predict with nothing saved; a
\* test scene whose build raises ends it with the predictions of all the
\* validation scenes, and of no other scene, saved.
C19_BuildOrder ==
    \A p \in Procs :
        Running(p, "predict") =>
            LET val == dataset[p].validation_scenes
                test == dataset[p].test_scenes
                stored == [k \in 1 .. Len(saved[p]) |-> saved[p][k].scene]
            IN  /\ Len(built[p]) <= Len(val \o test)
                /\ built[p] = SubSeq(val \o test, 1, Len(built[p]))
                /\ (active[p] # {} \/ saved[p] # <<>>) =>
                      Len(built[p]) >= Len(val)
                /\ Len(built[p]) > Len(val) =>
                      /\ Len(stored) >= Len(val)
                      /\ SubSeq(stored, 1, Len(val)) = val
                /\ (error[p].site = "scene.build"
                        /\ phase[p] = "validation") =>
                      saved[p] = <<>> /\ Len(built[p]) < Len(val)
                /\ (error[p].site = "scene.build" /\ phase[p] = "test") =>
                      stored = val /\ Len(built[p]) < Len(val \o test)

\* The build of a test scene raised after the predictions of two
\* validation scenes were saved.
C19_Witness ==
    \E p \in Procs :
        /\ Running(p, "predict") /\ pc[p] = "failed"
        /\ error[p].site = "scene.build" /\ phase[p] = "test"
        /\ Len(saved[p]) = 2
        /\ built[p] = dataset[p].validation_scenes

====
